---- MODULE Spec2Model ----
(***************************************************************************)
(* Buffer pool manager (buffer_pool_manager.cpp) over a clock replacer     *)
(* (clock_replacer.cpp).  Three specifications share the variables:        *)
(*   Spec          the pool's public operations, one action per call      *)
(*                  (every operation runs under lock_guard on latch_);     *)
(*   SpecConc      two threads calling the pool, with the latch explicit;  *)
(*   SpecReplacer  the replacer called directly (Victim, Pin, Unpin).      *)
(***************************************************************************)
EXTENDS Integers, Sequences, FiniteSets

\* ---------------------------------------------------------------- bounds
\* pool_size handed to the BufferPoolManager constructor
PoolSize == 1
\* handles a client may hold on one page at a time
MaxHold == 2
\* num_pages handed to the ClockReplacer constructor when it is used alone
ReplacerCapacity == 3

\* page ids 0 .. NumPages-1 exist: one more page than the pool has frames
NumPages == PoolSize + 1
\* page ids below InitialPages are on disk before the pool is built; the
\* disk manager allocates the others
InitialPages == NumPages - 1

\* ------------------------------------------------------------- constants
NoFrame == -1
INVALID_PAGE_ID == -1

Frames == 0 .. (PoolSize - 1)
Pages == 0 .. (NumPages - 1)
\* a payload is abstracted to: all zero bytes (as ResetMemory leaves them), or
\* some other content (what a client writes into a frame, and what the disk
\* holds of the pages it had before the pool was built)
Zeroed == "zero"
Written == "data"
Threads == {"t1", "t2"}
NoThread == "none"

VARIABLES
  page_table_,      \* page id -> frame, NoFrame when the key is absent
  free_list_,       \* sequence of frames
  page_id_,         \* Page::page_id_ per frame
  pin_count_,       \* Page::pin_count_ per frame
  is_dirty_,        \* Page::is_dirty_ per frame
  data_,            \* Page::data_ per frame
  pins_states,      \* replacer: TRUE = pinned (not evictable)
  access_states,    \* replacer: reference bit
  victimized_size,  \* replacer: Size()
  clock_pointer,    \* replacer: hand
  disk,             \* disk manager: page id -> payload
  next_page_id,     \* disk manager: next id AllocatePage returns
  latch_,           \* owner of the pool's mutex
  calls,            \* the calls the last operation made, in order
  lastOp,           \* the last operation and the page it was about
  retPage,          \* frame of the Page* the last Fetch/New returned
  retBool,          \* what the last Unpin/Flush/Delete/Victim returned
  tracking,         \* whether handles are counted in holders
  holders,          \* per page: handles handed out minus successful unpins
  pc, req, res,     \* per thread: position, pending request, last result
  race              \* page two threads are fetching concurrently

poolVars == <<page_table_, free_list_, page_id_, pin_count_, is_dirty_, data_>>
replVars == <<pins_states, access_states, victimized_size, clock_pointer>>
diskVars == <<disk, next_page_id>>
threadVars == <<pc, req, res, race>>
vars == <<poolVars, replVars, diskVars, latch_, calls, lastOp, retPage, retBool,
          tracking, holders, threadVars>>

\* ------------------------------------------------------------ the replacer
Replacer ==
  [pins |-> pins_states, access |-> access_states,
   size |-> victimized_size, hand |-> clock_pointer]

SetReplacer(r) ==
  /\ pins_states' = r.pins
  /\ access_states' = r.access
  /\ victimized_size' = r.size
  /\ clock_pointer' = r.hand

\* pins_states.size()
Capacity(pins) == Cardinality(DOMAIN pins)

\* the sweep without the second chance: the reference bit is not consulted
RECURSIVE Sweep_NoSecondChance(_, _, _, _)
Sweep_NoSecondChance(pins, access, hand, fuel) ==
  LET cp == IF hand >= Capacity(pins) THEN 0 ELSE hand IN
  IF fuel = 0
  THEN [found |-> FALSE, frame |-> NoFrame, access |-> access, hand |-> hand]
  ELSE IF ~pins[cp]
       THEN [found |-> TRUE, frame |-> cp, access |-> access, hand |-> cp + 1]
       ELSE Sweep_NoSecondChance(pins, access, cp + 1, fuel - 1)

\* the sweep indexing with clock_pointer modulo the capacity instead of
\* resetting clock_pointer: the stored hand grows without bound
RECURSIVE Sweep_WrapNotStored(_, _, _, _)
Sweep_WrapNotStored(pins, access, hand, fuel) ==
  LET cp == hand % Capacity(pins) IN
  IF fuel = 0
  THEN [found |-> FALSE, frame |-> NoFrame, access |-> access, hand |-> hand]
  ELSE IF ~pins[cp]
       THEN IF ~access[cp]
            THEN [found |-> TRUE, frame |-> cp, access |-> access, hand |-> hand + 1]
            ELSE Sweep_WrapNotStored(pins, [access EXCEPT ![cp] = FALSE],
                                     hand + 1, fuel - 1)
       ELSE Sweep_WrapNotStored(pins, access, hand + 1, fuel - 1)

\* the while (true) loop of Victim, unrolled at most fuel times; found = FALSE
\* stands for a loop that has not selected a frame within the unrolling
RECURSIVE Sweep(_, _, _, _)
Sweep(pins, access, hand, fuel) ==
  LET cp == IF hand >= Capacity(pins) THEN 0 ELSE hand IN
  IF fuel = 0
  THEN [found |-> FALSE, frame |-> NoFrame, access |-> access, hand |-> hand]
  ELSE IF ~pins[cp]
       THEN IF ~access[cp]
            THEN [found |-> TRUE, frame |-> cp, access |-> access, hand |-> cp + 1]
            ELSE Sweep(pins, [access EXCEPT ![cp] = FALSE], cp + 1, fuel - 1)
       ELSE Sweep(pins, access, cp + 1, fuel - 1)

\* Victim without pins_states[clock_pointer] = true: the selected frame stays
\* evictable
Victim_KeepsEvictable(r) ==
  IF r.size = 0
  THEN [ok |-> FALSE, spins |-> FALSE, frame |-> NoFrame, r |-> r]
  ELSE LET s == Sweep(r.pins, r.access, r.hand, 2 * Capacity(r.pins)) IN
       IF s.found
       THEN [ok |-> TRUE, spins |-> FALSE, frame |-> s.frame,
             r |-> [r EXCEPT !.access = s.access, !.size = r.size - 1,
                             !.hand = s.hand]]
       ELSE [ok |-> FALSE, spins |-> TRUE, frame |-> NoFrame,
             r |-> [r EXCEPT !.access = s.access, !.hand = s.hand]]

\* the loop is unrolled for two full revolutions of the hand: the first clears
\* every reference bit it passes, so a loop that has selected nothing by then
\* repeats the second revolution for ever.
\* spins = TRUE stands for the call that never leaves the while (true) loop
\* and so never reaches lock.unlock()
Victim(r) ==
  IF r.size = 0
  THEN [ok |-> FALSE, spins |-> FALSE, frame |-> NoFrame, r |-> r]
  ELSE LET s == Sweep(r.pins, r.access, r.hand, 2 * Capacity(r.pins)) IN
       IF s.found
       THEN [ok |-> TRUE, spins |-> FALSE, frame |-> s.frame,
             r |-> [pins |-> [r.pins EXCEPT ![s.frame] = TRUE],
                    access |-> s.access,
                    size |-> r.size - 1,
                    hand |-> s.hand]]
       ELSE [ok |-> FALSE, spins |-> TRUE, frame |-> NoFrame,
             r |-> [r EXCEPT !.access = s.access, !.hand = s.hand]]

Pin(r, frame_id) ==
  IF frame_id < Capacity(r.pins) /\ ~r.pins[frame_id]
  THEN [r EXCEPT !.pins[frame_id] = TRUE, !.size = r.size - 1]
  ELSE r

\* Unpin without access_states[frame_id] = true
Unpin_NoReference(r, frame_id) ==
  IF frame_id < Capacity(r.pins)
  THEN [r EXCEPT !.pins[frame_id] = FALSE,
                 !.size = IF r.pins[frame_id] THEN r.size + 1 ELSE r.size]
  ELSE r

Unpin(r, frame_id) ==
  IF frame_id < Capacity(r.pins)
  THEN [r EXCEPT !.pins[frame_id] = FALSE,
                 !.size = IF r.pins[frame_id] THEN r.size + 1 ELSE r.size,
                 !.access[frame_id] = TRUE]
  ELSE r

Size(r) == r.size

\* ---------------------------------------------------------------- the pool
Call(name, arg, byte) == [call |-> name, arg |-> arg, byte |-> byte]

getFrameId(page_id) == page_table_[page_id]

\* std::unordered_map::insert: keeps the old entry when the key is present
Insert(table, page_id, frame_id) ==
  IF table[page_id] # NoFrame THEN table ELSE [table EXCEPT ![page_id] = frame_id]

Erase(table, page_id) ==
  IF page_id \in DOMAIN table THEN [table EXCEPT ![page_id] = NoFrame] ELSE table

\* Page::ResetMemory: the payload is zeroed, the metadata is left alone
ResetMemory(frame_id) == [data_ EXCEPT ![frame_id] = Zeroed]

isAllPined == free_list_ = <<>> /\ \A f \in Frames : pin_count_[f] > 0

\* the free list first, then the replacer; a dirty victim is written back and
\* its entry leaves the page table
pickVictimPage ==
  IF free_list_ # <<>>
  THEN [frame |-> Head(free_list_), free |-> Tail(free_list_), repl |-> Replacer,
        table |-> page_table_, dsk |-> disk, calls |-> <<>>]
  ELSE LET v == Victim(Replacer) IN
       IF ~v.ok
       THEN [frame |-> NoFrame, free |-> free_list_, repl |-> v.r,
             table |-> page_table_, dsk |-> disk, calls |-> <<>>]
       ELSE LET f == v.frame
                q == page_id_[f]
            IN [frame |-> f, free |-> free_list_, repl |-> v.r,
                table |-> Erase(page_table_, q),
                dsk |-> IF is_dirty_[f] THEN [disk EXCEPT ![q] = data_[f]] ELSE disk,
                calls |-> IF is_dirty_[f]
                          THEN <<Call("WritePage", q, data_[f])>>
                          ELSE <<>>]

\* FetchPageImpl without the ReadPage call: the frame keeps the zeroed payload
FetchPageImpl_NoRead(page_id) ==
  LET hit == getFrameId(page_id) IN
  IF hit # NoFrame
  THEN /\ SetReplacer(Pin(Replacer, hit))
       /\ retPage' = hit
       /\ calls' = <<>>
       /\ UNCHANGED <<poolVars, diskVars>>
  ELSE LET pv == pickVictimPage
           f == pv.frame
       IN IF f = NoFrame
          THEN /\ retPage' = NoFrame
               /\ calls' = pv.calls
               /\ SetReplacer(pv.repl)
               /\ UNCHANGED <<poolVars, diskVars>>
          ELSE /\ free_list_' = pv.free
               /\ page_table_' = Insert(pv.table, page_id, f)
               /\ SetReplacer(Pin(pv.repl, f))
               /\ page_id_' = [page_id_ EXCEPT ![f] = page_id]
               /\ pin_count_' = [pin_count_ EXCEPT ![f] = 1]
               /\ is_dirty_' = [is_dirty_ EXCEPT ![f] = FALSE]
               /\ disk' = pv.dsk
               /\ data_' = ResetMemory(f)
               /\ calls' = pv.calls \o <<Call("ResetMemory", f, Zeroed)>>
               /\ retPage' = f
               /\ UNCHANGED next_page_id

FetchPageImpl(page_id) ==
  LET hit == getFrameId(page_id) IN
  IF hit # NoFrame
  THEN /\ SetReplacer(Pin(Replacer, hit))
       /\ retPage' = hit
       /\ calls' = <<>>
       /\ UNCHANGED <<poolVars, diskVars>>
  ELSE LET pv == pickVictimPage
           f == pv.frame
       IN IF f = NoFrame
          THEN /\ retPage' = NoFrame
               /\ calls' = pv.calls
               /\ SetReplacer(pv.repl)
               /\ UNCHANGED <<poolVars, diskVars>>
          ELSE /\ free_list_' = pv.free
               /\ page_table_' = Insert(pv.table, page_id, f)
               /\ SetReplacer(Pin(pv.repl, f))
               /\ page_id_' = [page_id_ EXCEPT ![f] = page_id]
               /\ pin_count_' = [pin_count_ EXCEPT ![f] = 1]
               /\ is_dirty_' = [is_dirty_ EXCEPT ![f] = FALSE]
               /\ disk' = pv.dsk
               /\ data_' = [data_ EXCEPT ![f] = pv.dsk[page_id]]
               /\ calls' = pv.calls \o <<Call("ResetMemory", f, Zeroed),
                                         Call("ReadPage", page_id, pv.dsk[page_id])>>
               /\ retPage' = f
               /\ UNCHANGED next_page_id

\* UnpinPageImpl without the early return on a pin count of 0
UnpinPageImpl_NoPinCheck(page_id, is_dirty) ==
  LET f == getFrameId(page_id) IN
  /\ calls' = <<>>
  /\ IF f = NoFrame
     THEN retBool' = FALSE /\ UNCHANGED <<poolVars, replVars, diskVars>>
     ELSE /\ pin_count_' = [pin_count_ EXCEPT ![f] = @ - 1]
          /\ is_dirty_' = [is_dirty_ EXCEPT ![f] = @ \/ is_dirty]
          /\ SetReplacer(Unpin(Replacer, f))
          /\ retBool' = TRUE
          /\ UNCHANGED <<page_table_, free_list_, page_id_, data_, diskVars>>

UnpinPageImpl(page_id, is_dirty) ==
  LET f == getFrameId(page_id) IN
  /\ calls' = <<>>
  /\ IF f = NoFrame
     THEN retBool' = FALSE /\ UNCHANGED <<poolVars, replVars, diskVars>>
     ELSE IF pin_count_[f] <= 0
          THEN retBool' = FALSE /\ UNCHANGED <<poolVars, replVars, diskVars>>
          ELSE /\ pin_count_' = [pin_count_ EXCEPT ![f] = @ - 1]
               /\ is_dirty_' = [is_dirty_ EXCEPT ![f] = @ \/ is_dirty]
               /\ SetReplacer(Unpin(Replacer, f))
               /\ retBool' = TRUE
               /\ UNCHANGED <<page_table_, free_list_, page_id_, data_, diskVars>>

FlushPageImpl(page_id) ==
  LET f == getFrameId(page_id) IN
  IF f = NoFrame
  THEN retBool' = FALSE /\ calls' = <<>> /\ UNCHANGED <<poolVars, replVars, diskVars>>
  ELSE IF ~is_dirty_[f]
       THEN retBool' = FALSE /\ calls' = <<>> /\ UNCHANGED <<poolVars, replVars, diskVars>>
       ELSE /\ disk' = [disk EXCEPT ![page_id] = data_[f]]
            /\ calls' = <<Call("WritePage", page_id, data_[f])>>
            /\ is_dirty_' = [is_dirty_ EXCEPT ![f] = FALSE]
            /\ retBool' = FALSE
            /\ UNCHANGED <<page_table_, free_list_, page_id_, pin_count_, data_,
                           replVars, next_page_id>>

NewPageImpl ==
  IF isAllPined
  THEN retPage' = NoFrame /\ calls' = <<>> /\ UNCHANGED <<poolVars, replVars, diskVars>>
  ELSE LET pv == pickVictimPage
           f == pv.frame
           new_page_id == next_page_id
       IN IF f < 0
          THEN /\ retPage' = NoFrame
               /\ calls' = pv.calls
               /\ SetReplacer(pv.repl)
               /\ UNCHANGED <<poolVars, diskVars>>
          ELSE /\ free_list_' = pv.free
               /\ SetReplacer(pv.repl)
               /\ disk' = pv.dsk
               /\ next_page_id' = next_page_id + 1
               /\ data_' = ResetMemory(f)
               /\ page_id_' = [page_id_ EXCEPT ![f] = new_page_id]
               /\ pin_count_' = [pin_count_ EXCEPT ![f] = 1]
               /\ is_dirty_' = [is_dirty_ EXCEPT ![f] = FALSE]
               /\ page_table_' = Insert(pv.table, new_page_id, f)
               /\ calls' = pv.calls \o <<Call("AllocatePage", new_page_id, Zeroed),
                                         Call("ResetMemory", f, Zeroed)>>
               /\ retPage' = f

\* DeletePageImpl without page_table_.erase: the frame goes to the free list
\* and stays in the page table
DeletePageImpl_NoErase(page_id) ==
  LET f == getFrameId(page_id) IN
  /\ calls' = <<>>
  /\ IF f = NoFrame
     THEN retBool' = TRUE /\ UNCHANGED <<poolVars, replVars, diskVars>>
     ELSE IF pin_count_[f] # 0
          THEN retBool' = FALSE /\ UNCHANGED <<poolVars, replVars, diskVars>>
          ELSE /\ data_' = ResetMemory(f)
               /\ free_list_' = Append(free_list_, f)
               /\ retBool' = FALSE
               /\ UNCHANGED <<page_table_, page_id_, pin_count_, is_dirty_,
                              replVars, diskVars>>

DeletePageImpl(page_id) ==
  LET f == getFrameId(page_id) IN
  /\ calls' = <<>>
  /\ IF f = NoFrame
     THEN retBool' = TRUE /\ UNCHANGED <<poolVars, replVars, diskVars>>
     ELSE IF pin_count_[f] # 0
          THEN retBool' = FALSE /\ UNCHANGED <<poolVars, replVars, diskVars>>
          ELSE /\ page_table_' = Erase(page_table_, page_id_[f])
               /\ data_' = ResetMemory(f)
               /\ free_list_' = Append(free_list_, f)
               /\ retBool' = FALSE
               /\ UNCHANGED <<page_id_, pin_count_, is_dirty_, replVars, diskVars>>

\* ----------------------------------------------------- construction (Init)
Op(name, page) == [op |-> name, page |-> page]

InitPool ==
  /\ page_table_ = [p \in Pages |-> NoFrame]
  /\ free_list_ = [i \in 1 .. PoolSize |-> i - 1]
  /\ page_id_ = [f \in Frames |-> INVALID_PAGE_ID]
  /\ pin_count_ = [f \in Frames |-> 0]
  /\ is_dirty_ = [f \in Frames |-> FALSE]
  /\ data_ = [f \in Frames |-> Zeroed]
  /\ disk = [p \in Pages |-> IF p < InitialPages THEN Written ELSE Zeroed]
  /\ next_page_id = InitialPages
  /\ latch_ = NoThread

InitReplacer(num_pages) ==
  /\ pins_states = [f \in 0 .. (num_pages - 1) |-> TRUE]
  /\ access_states = [f \in 0 .. (num_pages - 1) |-> FALSE]
  /\ victimized_size = 0
  /\ clock_pointer = 0

InitObserved ==
  /\ calls = <<>>
  /\ lastOp = Op("Init", INVALID_PAGE_ID)
  /\ retPage = NoFrame
  /\ retBool = FALSE
  /\ holders = [p \in Pages |-> 0]
  /\ pc = [t \in Threads |-> "idle"]
  /\ req = [t \in Threads |-> [op |-> "Init", page |-> INVALID_PAGE_ID, dirty |-> FALSE]]
  /\ res = [t \in Threads |-> [frame |-> NoFrame, reads |-> 0]]
  /\ race = INVALID_PAGE_ID

Init == InitPool /\ InitReplacer(PoolSize) /\ InitObserved /\ tracking = FALSE

\* ------------------------------------------------ the operations, observed
Handed(page_id) ==
  IF tracking THEN [holders EXCEPT ![page_id] = @ + 1] ELSE holders

Released(page_id) ==
  IF tracking /\ holders[page_id] > 0
  THEN [holders EXCEPT ![page_id] = @ - 1] ELSE holders

FetchOp(page_id) ==
  /\ page_id < next_page_id
  /\ holders[page_id] < MaxHold
  /\ FetchPageImpl(page_id)
  /\ lastOp' = Op("Fetch", page_id)
  /\ holders' = IF retPage' # NoFrame THEN Handed(page_id) ELSE holders
  /\ retBool' = FALSE
  /\ UNCHANGED tracking

UnpinOp(page_id, is_dirty) ==
  /\ UnpinPageImpl(page_id, is_dirty)
  /\ lastOp' = Op("Unpin", page_id)
  /\ holders' = IF retBool' THEN Released(page_id) ELSE holders
  /\ retPage' = NoFrame
  /\ UNCHANGED tracking

FlushOp(page_id) ==
  /\ FlushPageImpl(page_id)
  /\ lastOp' = Op("Flush", page_id)
  /\ retPage' = NoFrame
  /\ UNCHANGED <<holders, tracking>>

NewOp ==
  /\ next_page_id < NumPages
  /\ NewPageImpl
  /\ lastOp' = Op("New", IF retPage' # NoFrame THEN next_page_id ELSE INVALID_PAGE_ID)
  /\ holders' = IF retPage' # NoFrame THEN Handed(next_page_id) ELSE holders
  /\ retBool' = FALSE
  /\ UNCHANGED tracking

DeleteOp(page_id) ==
  /\ DeletePageImpl(page_id)
  /\ lastOp' = Op("Delete", page_id)
  /\ retPage' = NoFrame
  /\ UNCHANGED <<holders, tracking>>

\* ------------------------------------------------- Spec: one action per call
Fetch(page_id) ==
  latch_ = NoThread /\ FetchOp(page_id) /\ UNCHANGED <<latch_, threadVars>>

UnpinPage(page_id, is_dirty) ==
  latch_ = NoThread /\ UnpinOp(page_id, is_dirty) /\ UNCHANGED <<latch_, threadVars>>

Flush(page_id) ==
  latch_ = NoThread /\ FlushOp(page_id) /\ UNCHANGED <<latch_, threadVars>>

New ==
  latch_ = NoThread /\ NewOp /\ UNCHANGED <<latch_, threadVars>>

Delete(page_id) ==
  latch_ = NoThread /\ DeleteOp(page_id) /\ UNCHANGED <<latch_, threadVars>>

\* a client that pinned a resident page writes its payload through the handle
WriteBytes(page_id) ==
  /\ getFrameId(page_id) # NoFrame
  /\ pin_count_[getFrameId(page_id)] > 0
  /\ data_[getFrameId(page_id)] # Written
  /\ data_' = [data_ EXCEPT ![getFrameId(page_id)] = Written]
  /\ lastOp' = Op("Write", page_id)
  /\ calls' = <<>>
  /\ retPage' = NoFrame
  /\ retBool' = FALSE
  /\ UNCHANGED <<page_table_, free_list_, page_id_, pin_count_, is_dirty_, replVars,
                 diskVars, latch_, tracking, holders, threadVars>>

Next ==
  \/ \E p \in Pages : Fetch(p)
  \/ \E p \in Pages, d \in BOOLEAN : UnpinPage(p, d)
  \/ \E p \in Pages : Flush(p)
  \/ New
  \/ \E p \in Pages : Delete(p)
  \/ \E p \in Pages : WriteBytes(p)

Spec == Init /\ [][Next]_vars

\* ------------------------------ SpecHold: Spec with the handles counted
InitHold == InitPool /\ InitReplacer(PoolSize) /\ InitObserved /\ tracking = TRUE

SpecHold == InitHold /\ [][Next]_vars

\* ------------------------- SpecConc: two threads, the latch made explicit
Other(t) == CHOOSE u \in Threads : u # t

Pending(t) == pc[t] \in {"waiting", "locked"}

\* a thread calls FetchPage or UnpinPage and blocks on lock_guard(latch_)
TCall(t, name, page_id, is_dirty) ==
  /\ pc[t] = "idle"
  /\ name = "Fetch" => page_id < next_page_id /\ ~is_dirty
  /\ pc' = [pc EXCEPT ![t] = "waiting"]
  /\ req' = [req EXCEPT ![t] = [op |-> name, page |-> page_id, dirty |-> is_dirty]]
  /\ race' = IF /\ name = "Fetch"
                /\ Pending(Other(t))
                /\ req[Other(t)].op = "Fetch"
                /\ req[Other(t)].page = page_id
                /\ getFrameId(page_id) = NoFrame
             THEN page_id
             ELSE INVALID_PAGE_ID
  /\ UNCHANGED <<poolVars, replVars, diskVars, latch_, calls, lastOp, retPage,
                 retBool, tracking, holders, res>>

TLock(t) ==
  /\ pc[t] = "waiting"
  /\ latch_ = NoThread
  /\ latch_' = t
  /\ pc' = [pc EXCEPT ![t] = "locked"]
  /\ UNCHANGED <<poolVars, replVars, diskVars, calls, lastOp, retPage, retBool,
                 tracking, holders, req, res, race>>

Reads(cs) == Cardinality({i \in DOMAIN cs : cs[i].call = "ReadPage"})

TRun(t) ==
  /\ pc[t] = "locked"
  /\ latch_ = t
  /\ \/ req[t].op = "Fetch" /\ FetchOp(req[t].page)
     \/ req[t].op = "Unpin" /\ UnpinOp(req[t].page, req[t].dirty)
  /\ pc' = [pc EXCEPT ![t] = "ran"]
  /\ res' = [res EXCEPT ![t] = [frame |-> retPage', reads |-> Reads(calls')]]
  /\ UNCHANGED <<latch_, req, race>>

\* the lock_guard is destroyed as the call returns
TUnlock(t) ==
  /\ pc[t] = "ran"
  /\ latch_' = NoThread
  /\ pc' = [pc EXCEPT ![t] = "idle"]
  /\ UNCHANGED <<poolVars, replVars, diskVars, calls, lastOp, retPage, retBool,
                 tracking, holders, req, res, race>>

NextConc ==
  \E t \in Threads :
    \/ \E p \in Pages : TCall(t, "Fetch", p, FALSE)
    \/ \E p \in Pages, d \in BOOLEAN : TCall(t, "Unpin", p, d)
    \/ TLock(t)
    \/ TRun(t)
    \/ TUnlock(t)

SpecConc == Init /\ [][NextConc]_vars

\* -------------------------- SpecReplacer: the replacer called on its own
ReplFrames == 0 .. (ReplacerCapacity - 1)

InitAlone ==
  InitPool /\ InitReplacer(ReplacerCapacity) /\ InitObserved /\ tracking = FALSE

Unobserved ==
  UNCHANGED <<poolVars, diskVars, latch_, calls, tracking, holders, threadVars>>

ReplVictim ==
  LET v == Victim(Replacer) IN
  /\ SetReplacer(v.r)
  /\ retBool' = v.ok
  /\ retPage' = v.frame
  /\ lastOp' = Op(IF v.spins THEN "VictimSpins" ELSE "Victim", INVALID_PAGE_ID)
  /\ Unobserved

ReplPin(frame_id) ==
  /\ SetReplacer(Pin(Replacer, frame_id))
  /\ retBool' = FALSE
  /\ retPage' = frame_id
  /\ lastOp' = Op("ReplPin", INVALID_PAGE_ID)
  /\ Unobserved

ReplUnpin(frame_id) ==
  /\ SetReplacer(Unpin(Replacer, frame_id))
  /\ retBool' = FALSE
  /\ retPage' = frame_id
  /\ lastOp' = Op("ReplUnpin", INVALID_PAGE_ID)
  /\ Unobserved

NextReplacer ==
  \/ ReplVictim
  \/ \E f \in ReplFrames : ReplPin(f)
  \/ \E f \in ReplFrames : ReplUnpin(f)

SpecReplacer == InitAlone /\ [][NextReplacer]_vars

\* ------------------------------------- the replacer called with any frame_id
\* frame_id_t is a signed integer: one index below the range, the range, and
\* one index above it
AnyFrames == -1 .. ReplacerCapacity

\* Pin with frame_id < 0: the guard frame_id < pins_states.size() lets it
\* through and pins_states[frame_id] reads a bit in front of the vector's
\* storage; bit is the value found there
PinBelow(r, bit) == IF ~bit THEN [r EXCEPT !.size = r.size - 1] ELSE r

\* Unpin with frame_id < 0, likewise
UnpinBelow(r, bit) == IF bit THEN [r EXCEPT !.size = r.size + 1] ELSE r

\* a call that never returned (a Victim still in its loop with the lock held,
\* or an access fault) leaves nothing for the other callers to do
Running == lastOp.op \notin {"VictimSpins", "Fault"}

SizeInBound(r) == r.size \in (0 - Capacity(r.pins)) .. (2 * Capacity(r.pins))

\* the out-of-storage access faults
Fault(frame_id) ==
  /\ UNCHANGED replVars
  /\ retBool' = FALSE
  /\ retPage' = frame_id
  /\ lastOp' = Op("Fault", INVALID_PAGE_ID)
  /\ Unobserved

AnyVictim == Running /\ ReplVictim

AnyPin(frame_id) ==
  /\ Running
  /\ IF frame_id >= 0
     THEN ReplPin(frame_id)
     ELSE \/ \E bit \in BOOLEAN :
               /\ SizeInBound(PinBelow(Replacer, bit))
               /\ SetReplacer(PinBelow(Replacer, bit))
               /\ retBool' = FALSE
               /\ retPage' = frame_id
               /\ lastOp' = Op("ReplPin", INVALID_PAGE_ID)
               /\ Unobserved
          \/ Fault(frame_id)

AnyUnpin(frame_id) ==
  /\ Running
  /\ IF frame_id >= 0
     THEN ReplUnpin(frame_id)
     ELSE \/ \E bit \in BOOLEAN :
               /\ SizeInBound(UnpinBelow(Replacer, bit))
               /\ SetReplacer(UnpinBelow(Replacer, bit))
               /\ retBool' = FALSE
               /\ retPage' = frame_id
               /\ lastOp' = Op("ReplUnpin", INVALID_PAGE_ID)
               /\ Unobserved
          \/ Fault(frame_id)

NextReplacerAny ==
  \/ AnyVictim
  \/ \E f \in AnyFrames : AnyPin(f)
  \/ \E f \in AnyFrames : AnyUnpin(f)

SpecReplacerAny == InitAlone /\ [][NextReplacerAny]_vars

\* =================================================================== claims
Resident(page_id) == page_table_[page_id] # NoFrame

CallsOf(cs, name) == {i \in DOMAIN cs : cs[i].call = name}

PoolUntouched == UNCHANGED <<poolVars, replVars, diskVars>>

\* C1 (pin safety): a resident page some client still holds a handle on (more
\* Fetch/New calls returned it than Unpin calls returned true) is never
\* evicted: it stays in the page table at the same frame, and the frame goes
\* on naming it.
C1_PinSafety ==
  [][\A p \in Pages :
       (holders[p] > 0 /\ Resident(p)) =>
          /\ page_table_'[p] = page_table_[p]
          /\ page_id_'[page_table_[p]] = p]_vars

\* C2 (fetch hit): Fetch(p) of a page resident at frame f with pin count n
\* returns frame f, leaves the page table unchanged, reads nothing from disk
\* and leaves pin_count_[f] = n + 1.
C2_FetchHit ==
  [][\A p \in Pages :
       (Fetch(p) /\ Resident(p)) =>
          LET f == page_table_[p] IN
          /\ retPage' = f
          /\ page_table_' = page_table_
          /\ CallsOf(calls', "ReadPage") = {}
          /\ pin_count_'[f] = pin_count_[f] + 1]_vars

HoldsPage(f) == \E q \in Pages : page_table_[q] = f

InFreeList(f) == \E i \in DOMAIN free_list_ : free_list_[i] = f

EveryFramePinned == \A f \in Frames : HoldsPage(f) /\ pin_count_[f] > 0

SomeFrameAvailable ==
  \E f \in Frames : InFreeList(f) \/ (HoldsPage(f) /\ pin_count_[f] = 0)

NoneIffAllPinned ==
  /\ EveryFramePinned => (retPage' = NoFrame /\ PoolUntouched)
  /\ SomeFrameAvailable => retPage' # NoFrame

\* C3 (no victim): Fetch of a non-resident page, and New, return none exactly
\* when every frame is pinned: with every frame holding a page of pin count
\* > 0 the call returns none and changes no pool state; with a frame in the
\* free list or holding a page of pin count 0 it returns a handle.
C3_NoneIffAllPinned ==
  [][/\ \A p \in Pages : (Fetch(p) /\ ~Resident(p)) => NoneIffAllPinned
     /\ New => NoneIffAllPinned]_vars

\* C4 (unpin): Unpin(p, d) of a page that is not resident, or resident with
\* pin count 0, returns false and changes no pool or replacer state;
\* otherwise it returns true, lowers the pin count by exactly one and sets
\* is_dirty to (is_dirty OR d).  The pin count is never negative.
C4_Unpin ==
  /\ [](\A f \in Frames : pin_count_[f] >= 0)
  /\ [][\A p \in Pages, d \in BOOLEAN :
          UnpinPage(p, d) =>
             LET f == page_table_[p] IN
             IF f = NoFrame \/ pin_count_[f] = 0
             THEN retBool' = FALSE /\ PoolUntouched
             ELSE /\ retBool' = TRUE
                  /\ pin_count_' = [pin_count_ EXCEPT ![f] = pin_count_[f] - 1]
                  /\ is_dirty_' = [is_dirty_ EXCEPT ![f] = is_dirty_[f] \/ d]]_vars

\* an Unpin of a resident page whose pin count was already 0 was refused
C4_Witness ==
  /\ lastOp.op = "Unpin"
  /\ retBool = FALSE
  /\ Resident(lastOp.page)
  /\ pin_count_[page_table_[lastOp.page]] = 0

\* C5 (flush): Flush(p) returns false and writes nothing when p is not
\* resident or its frame is clean; when p is resident and dirty it issues one
\* WritePage(p, payload), clears is_dirty and returns true.  It changes
\* neither the pin counts, the page table, the free list nor the replacer.
C5_Flush ==
  [][\A p \in Pages :
       Flush(p) =>
          LET f == page_table_[p] IN
          /\ UNCHANGED <<pin_count_, page_table_, free_list_, replVars>>
          /\ IF f = NoFrame \/ ~is_dirty_[f]
             THEN retBool' = FALSE /\ calls' = <<>> /\ disk' = disk
             ELSE /\ calls' = <<Call("WritePage", p, data_[f])>>
                  /\ disk' = [disk EXCEPT ![p] = data_[f]]
                  /\ ~is_dirty_'[f]
                  /\ retBool' = TRUE]_vars

\* C6 (delete): Delete(p) returns true and changes nothing when p is not
\* resident; returns false and changes nothing when p is resident with pin
\* count > 0; and when p is resident with pin count 0 it returns true, p
\* leaves the page table and its frame goes to the back of the free list, so
\* that a later Fetch(p) is a miss.
C6_Delete ==
  [][\A p \in Pages :
       Delete(p) =>
          LET f == page_table_[p] IN
          IF f = NoFrame
          THEN retBool' = TRUE /\ PoolUntouched
          ELSE IF pin_count_[f] > 0
               THEN retBool' = FALSE /\ PoolUntouched
               ELSE /\ retBool' = TRUE
                    /\ page_table_'[p] = NoFrame
                    /\ free_list_' = Append(free_list_, f)]_vars

\* C7 (deallocation): a Delete(p) that removes a resident page of pin count 0
\* issues exactly one DeallocatePage(p) to the disk manager; a Delete that
\* finds p absent or pinned issues none.
C7_Deallocate ==
  [][\A p \in Pages :
       Delete(p) =>
          LET f == page_table_[p]
              issued == {i \in DOMAIN calls' : calls'[i] = Call("DeallocatePage", p, Zeroed)}
          IN IF f # NoFrame /\ pin_count_[f] = 0
             THEN Cardinality(issued) = 1
             ELSE CallsOf(calls', "DeallocatePage") = {}]_vars

BothReturned == \A t \in Threads : pc[t] = "idle" /\ res[t].frame # NoFrame

\* C8 (concurrent fetch): when two threads fetch the same non-resident page p
\* concurrently and both return a handle, exactly one of them read p from
\* disk, both got the same frame, and p occupies that one frame with pin
\* count 2.
C8_ConcurrentFetch ==
  (race # INVALID_PAGE_ID /\ BothReturned) =>
     LET f == page_table_[race] IN
     /\ res["t1"].reads + res["t2"].reads = 1
     /\ res["t1"].frame = f
     /\ res["t2"].frame = f
     /\ Cardinality({g \in Frames : page_id_[g] = race}) = 1
     /\ pin_count_[f] = 2

\* the frame a miss reuses and the page it held, if any
Evicts(f, q) == retPage' = f /\ page_table_[q] = f

WrittenBackFirst(f, q) ==
  LET ws == CallsOf(calls', "WritePage") IN
  /\ Cardinality(ws) = 1
  /\ \A i \in ws :
        /\ calls'[i] = Call("WritePage", q, data_[f])
        /\ \A j \in CallsOf(calls', "ResetMemory") \cup CallsOf(calls', "ReadPage") : i < j
  /\ disk'[q] = data_[f]

EvictionRule ==
  \A f \in Frames, q \in Pages :
     Evicts(f, q) =>
        /\ page_table_'[q] = NoFrame
        /\ IF is_dirty_[f]
           THEN WrittenBackFirst(f, q)
           ELSE CallsOf(calls', "WritePage") = {} /\ disk' = disk

\* C9 (dirty write-back on eviction): when a Fetch miss or New reuses a frame
\* holding a page q, q leaves the page table; if the frame was dirty exactly
\* one WritePage(q, payload) is issued, before the memory is reset and before
\* any ReadPage, and if it was clean no WritePage is issued.  The disk keeps
\* what it holds of a page that is not resident, and a Fetch miss loads the
\* frame with what the disk holds, so an evicted dirty page is read back with
\* the bytes it was evicted with.
C9_WriteBack ==
  [][/\ \A p \in Pages :
          (Fetch(p) /\ ~Resident(p)) =>
             /\ EvictionRule
             /\ retPage' # NoFrame =>
                   /\ data_'[retPage'] = disk[p]
                   /\ \E i \in DOMAIN calls' : calls'[i] = Call("ReadPage", p, disk[p])
     /\ New => EvictionRule
     /\ \A q \in Pages :
          (~Resident(q) /\ page_table_'[q] = NoFrame) => disk'[q] = disk[q]]_vars

\* a Fetch miss wrote back a page the disk manager had allocated, with the
\* bytes a client put in it
C9_Witness ==
  /\ lastOp.op = "Fetch"
  /\ \E i \in DOMAIN calls :
        /\ calls[i].call = "WritePage"
        /\ calls[i].arg >= InitialPages
        /\ calls[i].byte = Written

\* position k of a sweep that starts at the hand
SweepPos(k) == (clock_pointer + k) % Capacity(pins_states)

\* the sweep selects at position k: an evictable frame whose reference bit is
\* clear, or was cleared one revolution earlier
Selectable(k) ==
  /\ ~pins_states[SweepPos(k)]
  /\ ~access_states[SweepPos(k)] \/ k >= Capacity(pins_states)

FirstSelectable ==
  CHOOSE k \in 0 .. (2 * Capacity(pins_states) - 1) :
     Selectable(k) /\ \A j \in 0 .. (k - 1) : ~Selectable(j)

\* C10 (clock rule): with at least one evictable frame, Victim sweeps forward
\* from the hand, wrapping at capacity, leaves non-evictable frames as they
\* are, clears the reference bit of every evictable frame it passes whose bit
\* is set, and returns the first evictable frame it meets with the bit clear;
\* that frame becomes not evictable, Size drops by exactly one and the hand
\* ends one position past it.
C10_ClockRule ==
  [][(ReplVictim /\ \E f \in DOMAIN pins_states : ~pins_states[f]) =>
        LET k == FirstSelectable
            victim == SweepPos(k)
            passed == {SweepPos(j) : j \in 0 .. (k - 1)}
        IN /\ retBool' = TRUE
           /\ retPage' = victim
           /\ pins_states' = [pins_states EXCEPT ![victim] = TRUE]
           /\ access_states' =
                [g \in DOMAIN access_states |->
                   IF g \in passed /\ ~pins_states[g] THEN FALSE ELSE access_states[g]]
           /\ victimized_size' = victimized_size - 1
           /\ clock_pointer' = victim + 1]_vars

\* Victim returned a frame, and an evictable frame's reference bit has been
\* cleared by a sweep
C10_Witness ==
  /\ lastOp.op = "Victim"
  /\ retBool = TRUE
  /\ clock_pointer = retPage + 1
  /\ \E g \in DOMAIN pins_states : ~pins_states[g] /\ ~access_states[g]

\* ------------------------------------------------------------------------
Evictable == {f \in DOMAIN pins_states : ~pins_states[f]}

\* C11 (Victim terminates): whatever Victim, Pin and Unpin calls came before,
\* a Victim call returns with the lock released; it returns none and changes
\* nothing when no frame is evictable, and otherwise returns a frame within
\* two revolutions of the hand.
C11_VictimTerminates ==
  [][AnyVictim =>
        /\ lastOp'.op = "Victim"
        /\ IF Evictable = {}
           THEN retBool' = FALSE /\ UNCHANGED replVars
           ELSE retBool' = TRUE /\ retPage' \in Evictable]_vars

\* C12 (out-of-range indices are ignored): Pin(f) and Unpin(f) with f outside
\* [0, capacity), negative f included, return normally and leave every
\* evictable flag, every reference bit, the hand and Size unchanged.
C12_OutOfRangeIgnored ==
  [][\A f \in AnyFrames \ DOMAIN pins_states :
        (AnyPin(f) \/ AnyUnpin(f)) =>
           lastOp'.op # "Fault" /\ UNCHANGED replVars]_vars

\* C13 (the replacer mirrors the pin counts): between pool operations a frame
\* is evictable in the replacer exactly when it holds a page whose pin count
\* is 0, and Size() is the number of such frames.
Unpinned == {f \in Frames : HoldsPage(f) /\ pin_count_[f] = 0}

C13_ReplacerMirrorsPins ==
  /\ \A f \in Frames : ~pins_states[f] <=> f \in Unpinned
  /\ Size(Replacer) = Cardinality(Unpinned)

\* C14 (frames are partitioned): every frame is in exactly one of the free
\* list and the page table, the free list holds no frame twice, no two page
\* ids map to one frame, and the two together count pool_size frames.
C14_FramePartition ==
  /\ \A f \in Frames : InFreeList(f) # HoldsPage(f)
  /\ \A i, j \in DOMAIN free_list_ : i # j => free_list_[i] # free_list_[j]
  /\ \A p, q \in Pages : (p # q /\ Resident(p)) => page_table_[p] # page_table_[q]
  /\ Len(free_list_) + Cardinality({p \in Pages : Resident(p)}) = PoolSize

\* a frame went from the page table back to the free list
C14_Witness ==
  /\ lastOp.op = "Delete"
  /\ \E f \in Frames : InFreeList(f) /\ page_id_[f] = lastOp.page

\* C15 (page table and frame metadata agree): page p maps to frame f exactly
\* when frame f names page p, so a frame in the free list names no page.
C15_TableMatchesFrames ==
  /\ \A p \in Pages, f \in Frames : page_table_[p] = f <=> page_id_[f] = p
  /\ \A f \in Frames : InFreeList(f) => page_id_[f] = INVALID_PAGE_ID

\* C16 (free frames are not evictable): a frame in the free list is never
\* evictable in the replacer.
C16_FreeNotEvictable ==
  \A f \in Frames : InFreeList(f) => pins_states[f]

\* C17 (Size counts the evictable frames): after construction and after any
\* Victim, Pin and Unpin calls, Size() is the number of frames whose evictable
\* flag is set and lies in 0 .. capacity; at construction no frame is
\* evictable, every reference bit is false and Size() is 0.
C17_SizeCountsEvictable ==
  /\ Size(Replacer) = Cardinality(Evictable)
  /\ Size(Replacer) \in 0 .. Capacity(pins_states)
  /\ lastOp.op = "Init" =>
        /\ Evictable = {}
        /\ \A f \in DOMAIN access_states : ~access_states[f]
        /\ Size(Replacer) = 0

\* C18 (per-frame effect of Pin and Unpin): for f in range, Pin(f) leaves f
\* not evictable, changes nothing when f already was, and never changes a
\* reference bit or the hand; Unpin(f) leaves f evictable with its reference
\* bit set and changes Size only when f was not evictable; no other frame's
\* flag or reference bit changes.
C18_PinUnpinEffect ==
  [][\A f \in ReplFrames :
        /\ ReplPin(f) =>
              /\ pins_states' = [pins_states EXCEPT ![f] = TRUE]
              /\ victimized_size' =
                    IF pins_states[f] THEN victimized_size ELSE victimized_size - 1
              /\ UNCHANGED <<access_states, clock_pointer>>
        /\ ReplUnpin(f) =>
              /\ pins_states' = [pins_states EXCEPT ![f] = FALSE]
              /\ access_states' = [access_states EXCEPT ![f] = TRUE]
              /\ victimized_size' =
                    IF pins_states[f] THEN victimized_size + 1 ELSE victimized_size
              /\ UNCHANGED clock_pointer]_vars

\* Unpin has set the reference bit of a frame while another frame was
\* evictable with its bit cleared by a sweep
C18_Witness ==
  /\ lastOp.op = "ReplUnpin"
  /\ ~pins_states[retPage] /\ access_states[retPage]
  /\ \E g \in Evictable : g # retPage /\ ~access_states[g]

\* n successive Victim calls with no Pin or Unpin in between
RECURSIVE VictimRun(_, _)
VictimRun(r, n) ==
  IF n = 0 THEN <<>> ELSE LET v == Victim(r) IN <<v>> \o VictimRun(v.r, n - 1)

\* C19 (once per revolution): with k frames evictable, the next k Victim calls
\* with no Pin or Unpin in between return each of those k frames exactly once,
\* and the call after them returns none.
C19_OncePerRevolution ==
  LET k == Cardinality(Evictable)
      run == VictimRun(Replacer, k + 1)
  IN /\ \A i \in 1 .. k : run[i].ok /\ run[i].frame \in Evictable
     /\ \A i, j \in 1 .. k : i # j => run[i].frame # run[j].frame
     /\ ~run[k + 1].ok /\ ~run[k + 1].spins

\* in the middle of such a run: a Victim call has returned a frame, two frames
\* are still evictable and one of them lies behind the hand
C19_Witness ==
  /\ lastOp.op = "Victim" /\ retBool
  /\ Cardinality(Evictable) >= 2
  /\ \E f \in Evictable : f < clock_pointer

\* C20 as stated (the hand is a frame index): between replacer operations the
\* stored hand lies in [0, capacity).
C20_HandIsFrameIndex == clock_pointer \in DOMAIN pins_states

\* C20 as amended: the stored hand lies in [0, capacity]; a Victim call that
\* selects frame f leaves it at f + 1, which is capacity after the last frame.
C20_HandWithinCapacity ==
  /\ [](clock_pointer \in 0 .. Capacity(pins_states))
  /\ [][(ReplVictim /\ retBool') => clock_pointer' = retPage' + 1]_vars

C20_Witness ==
  /\ lastOp.op = "Victim" /\ retBool
  /\ retPage = Capacity(pins_states) - 1
  /\ clock_pointer = Capacity(pins_states)

====
